---- MODULE Spec2Model ----
(***************************************************************************)
(* Model of pygraver.machine.Machine: the serial command/response layer    *)
(* of a 4-axis engraver, together with the device at the other end of the  *)
(* serial line.                                                            *)
(*                                                                         *)
(* A coroutine of Machine runs atomically from one await to the next, so   *)
(* every action below is the code between two suspension points: the       *)
(* start of a call up to its first await, or the resumption of an await    *)
(* (drain, readuntil, wait_closed) up to the next one or to the return.    *)
(* Text is modelled as sequences of one-character strings.  A command line *)
(* in flight is marked "cur" when it was handed over by the latest call of *)
(* writer.write and "old" when by an earlier one; a reply line carries,    *)
(* next to its text, the mark of the command line the device answered.     *)
(***************************************************************************)
EXTENDS Integers, Sequences, FiniteSets, TLC

\* ------------------------------------------------------------------ bounds
MaxWire == 3          \* command lines written and not yet taken by the device
MaxRx == 3            \* reply lines emitted and not yet read
MaxPts == 3           \* points held by the motion history

\* ------------------------------------------------------- program constants
Axes == <<"X", "Y", "Z", "C">>
DefaultTermChar == <<"\n">>
DefaultResponseOk == <<"o", "k">>
DefaultFeedRate == 100
DefaultToolSize == 1
DefaultBaudRate == 115200
DefaultTimeout == 1

Tasks == {1, 2}

VARIABLES
    port,          \* Machine._port
    reader,        \* Machine.__reader is not None
    writer,        \* Machine.__writer is not None
    term_char,     \* Machine._term_char
    response_ok,   \* Machine._response_ok
    feed_rate,     \* Machine._feed_rate
    endstops,      \* Machine._endstops
    serial_baud_rate,  \* Machine._serial_baud_rate
    timeout,       \* Machine._timeout: a number of seconds, or None
    attr_baud_rate,  \* Machine.baud_rate, an attribute only SyncMachine assigns
    history,       \* Machine.history
    call,          \* per task: the coroutine being run and its locals
    transport,     \* state of the serial transport behind reader/writer
    wire,          \* command lines written and not yet taken by the device
    rx,            \* reply lines emitted and not yet read
    devOk          \* every reply emitted so far ended with an ok line

vars == <<port, reader, writer, term_char, response_ok, feed_rate, endstops,
          serial_baud_rate, timeout, attr_baud_rate, history, call, transport, wire, rx, devOk>>

settings == <<port, term_char, response_ok, feed_rate, endstops,
             serial_baud_rate, timeout, attr_baud_rate>>

\* --------------------------------------------------------------- helpers
Last(s) == s[Len(s)]

EndsWith(s, suffix) ==
    /\ Len(s) >= Len(suffix)
    /\ SubSeq(s, Len(s) - Len(suffix) + 1, Len(s)) = suffix

Point(x, y, z, c) == [x |-> x, y |-> y, z |-> z, c |-> c]
Origin == Point(0, 0, 0, 0)

StyledPath == [pts |-> <<>>, tool_size |-> DefaultToolSize]

\* a timeout: float seconds, or None for no limit
Seconds(v) == [inf |-> FALSE, s |-> v]
Infinite == [inf |-> TRUE, s |-> 0]

\* a token of a command line: a mnemonic or a letter with its value
Tok(k, v) == [k |-> k, v |-> v]

\* ------------------------------------------------------------ the codec
Lower(k) ==
    CASE k = "X" -> "x" [] k = "Y" -> "y" [] k = "Z" -> "z" [] k = "C" -> "c"
      [] OTHER -> k

Upper(k) ==
    CASE k = "x" -> "X" [] k = "y" -> "Y" [] k = "z" -> "Z" [] k = "c" -> "C"
      [] k = "foo" -> "FOO"
      [] OTHER -> k

AxisSet == {Axes[i] : i \in 1..Len(Axes)}

\* Machine._axes maps an axis letter to the Point attribute of that axis
AxisAttr(ax) == Lower(ax)

\* setattr(pt, self._axes[ax], v)
SetAttr(pt, ax, v) == [pt EXCEPT ![AxisAttr(ax)] = v]

\* a dict is a sequence of [key, val] entries in insertion order, keys unique
HasKey(d, k) == \E i \in 1..Len(d) : d[i].key = k

\* dict.update({k: v}): replace the value in place or insert at the end
Update(d, k, v) ==
    IF HasKey(d, k)
    THEN [i \in 1..Len(d) |-> IF d[i].key = k THEN [key |-> k, val |-> v] ELSE d[i]]
    ELSE Append(d, [key |-> k, val |-> v])

RECURSIVE ParseFrom(_, _)
ParseFrom(kwargs, new_pos) ==
    IF kwargs = <<>> THEN new_pos
    ELSE LET key == Head(kwargs).key
         IN  ParseFrom(Tail(kwargs),
                 IF key \in AxisSet \/ Upper(key) \in AxisSet
                 THEN Update(new_pos, Upper(key), Head(kwargs).val)
                 ELSE new_pos)

_parse_position(kwargs) == ParseFrom(kwargs, <<>>)

\* "{cmd} {args}" with one "{key}{pos:f}" per entry of positions, in its order
_make_position_string(cmd, positions) ==
    <<Tok(cmd, 0)>> \o [i \in 1..Len(positions) |-> Tok(positions[i].key, positions[i].val)]

RECURSIVE SetAll(_, _)
SetAll(pt, new_pos) ==
    IF new_pos = <<>> THEN pt
    ELSE SetAll(SetAttr(pt, Head(new_pos).key, Head(new_pos).val), Tail(new_pos))

\* history[-1].append(pt)
AppendPoint(h, pt) == [h EXCEPT ![Len(h)].pts = Append(@, pt)]

LastPoint(h) == Last(Last(h).pts)

\* an assignment that adds a point instead of changing the last one
SetLastPoint_Append(h, pt) == [h EXCEPT ![Len(h)].pts = Append(@, pt)]

\* an assignment that reaches the last point of the last segment alone
SetLastPoint_Copy(h, pt) == [h EXCEPT ![Len(h)].pts = [@ EXCEPT ![Len(@)] = pt]]

\* assignment through history[-1][-1].  set_tool_size seeds a new segment with
\* the Point object that ends the segment before it, and append keeps the
\* object it is given (move sets the axes of its point after appending it):
\* while the last segment holds its seed alone, history[-1][-1] is that
\* object, and the end of the segment before changes with it.
SetLastPoint(h, pt) ==
    LET n == Len(h)
        h1 == [h EXCEPT ![n].pts = [@ EXCEPT ![Len(@)] = pt]]
    IN  IF n > 1 /\ Len(h[n].pts) = 1
        THEN [h1 EXCEPT ![n - 1].pts = [@ EXCEPT ![Len(@)] = pt]]
        ELSE h1

\* the bytes compared by wait_answer: response_ok followed by term_char
OkMessage(ok, term) == ok \o term

\* --- decoding of a position reply (the regular expression of get_position)
Digits == {"0", "1", "2", "3", "4", "5", "6", "7", "8", "9"}
DigitVal(ch) ==
    CASE ch = "0" -> 0 [] ch = "1" -> 1 [] ch = "2" -> 2 [] ch = "3" -> 3
      [] ch = "4" -> 4 [] ch = "5" -> 5 [] ch = "6" -> 6 [] ch = "7" -> 7
      [] ch = "8" -> 8 [] ch = "9" -> 9 [] OTHER -> 0

At(s, i) == IF i >= 1 /\ i <= Len(s) THEN s[i] ELSE ""

\* length of the longest run of digits of s from index i on, at most max
RECURSIVE DigitRun(_, _, _)
DigitRun(s, i, max) ==
    IF max = 0 \/ At(s, i) \notin Digits THEN 0
    ELSE 1 + DigitRun(s, i + 1, max - 1)

RECURSIVE IntOf(_, _, _)
IntOf(s, i, n) ==
    IF n = 0 THEN 0
    ELSE 10 * IntOf(s, i, n - 1) + DigitVal(s[i + n - 1])

\* match of (?i)AX:(?: |)(?:-|)[0-9]{1,8}(?:\.|)[0-9]{0,8} at index i of s;
\* val is float() of what follows the colon.  The digits after a decimal point
\* are zeros in every text of the model, so the value is an integer.
PosMatchAt(s, ax, i) ==
    LET sp == IF At(s, i + 2) = " " THEN 1 ELSE 0
        sg == IF At(s, i + 2 + sp) = "-" THEN 1 ELSE 0
        d0 == i + 2 + sp + sg
        n1 == DigitRun(s, d0, 8)
        dot == IF At(s, d0 + n1) = "." THEN 1 ELSE 0
        n2 == DigitRun(s, d0 + n1 + dot, 8)
        mag == IF dot = 1 THEN IntOf(s, d0, n1)
               ELSE IntOf(s, d0, n1 + n2)
    IN  [found |-> /\ At(s, i) \in {ax, Lower(ax)}
                   /\ At(s, i + 1) = ":"
                   /\ n1 >= 1,
         val |-> IF sg = 1 THEN 0 - mag ELSE mag]

\* re.search: the leftmost match
PosSearch(s, ax) ==
    LET hits == {i \in 1..Len(s) : PosMatchAt(s, ax, i).found}
    IN  IF hits = {} THEN [found |-> FALSE, val |-> 0]
        ELSE PosMatchAt(s, ax, CHOOSE i \in hits : \A j \in hits : i <= j)

RECURSIVE ParsePositionFrom(_, _, _, _)
ParsePositionFrom(pt, line, prev, i) ==
    IF i > Len(Axes) THEN pt
    ELSE LET m == PosSearch(line, Axes[i])
         IN  ParsePositionFrom(
                 SetAttr(pt, Axes[i], IF m.found THEN m.val ELSE prev[AxisAttr(Axes[i])]),
                 line, prev, i + 1)

\* a decoding that gives 0 to the axes the reply does not name
ParsePosition_NoFallback(line, prev) == ParsePositionFrom(Origin, line, Origin, 1)

ParsePosition(line, prev) == ParsePositionFrom(Origin, line, prev, 1)

\* --- decoding of an endstop reply (the regular expression of probe_endstops)
WordChars == Digits \cup {"_"} \cup
    {"a", "b", "c", "d", "e", "f", "g", "h", "i", "j", "k", "l", "m",
     "n", "o", "p", "q", "r", "s", "t", "u", "v", "w", "x", "y", "z",
     "A", "B", "C", "D", "E", "F", "G", "H", "I", "J", "K", "L", "M",
     "N", "O", "P", "Q", "R", "S", "T", "U", "V", "W", "X", "Y", "Z"}
SpaceChars == {" ", "\n", "\t", "\r"}

RECURSIVE ClassRun(_, _)
ClassRun(s, i) ==
    IF At(s, i) \in WordChars \cup SpaceChars THEN 1 + ClassRun(s, i + 1) ELSE 0

Contains(s, sub) ==
    \E i \in 1..(Len(s) - Len(sub) + 1) : SubSeq(s, i, i + Len(sub) - 1) = sub

NotStopped == <<"n", "o", "t", " ", "s", "t", "o", "p", "p", "e", "d">>

\* match of AX:([\w\s]*), at index i of s; group is group(1)
EndMatchAt(s, ax, i) ==
    LET n == ClassRun(s, i + 2)
    IN  [found |-> /\ At(s, i) = ax
                   /\ At(s, i + 1) = ":"
                   /\ At(s, i + 2 + n) = ",",
         group |-> SubSeq(s, i + 2, i + 1 + n)]

EndSearch(s, ax) ==
    LET hits == {i \in 1..Len(s) : EndMatchAt(s, ax, i).found}
    IN  IF hits = {} THEN [found |-> FALSE, group |-> <<>>]
        ELSE EndMatchAt(s, ax, CHOOSE i \in hits : \A j \in hits : i <= j)

\* a decoding that reports no axis as triggered
ParseEndstops_Clear(line) == [ax \in AxisSet |-> FALSE]

ParseEndstops(line) ==
    [ax \in AxisSet |->
        LET m == EndSearch(line, ax)
        IN  IF ~m.found \/ Contains(m.group, NotStopped) THEN FALSE ELSE TRUE]

\* ------------------------------------------------------- results of a call
NoDict == [a \in {} |-> FALSE]
Pending == [kind |-> "pending", lines |-> <<>>, b |-> FALSE, exc |-> "",
            pt |-> Origin, dict |-> NoDict]
RetNone == [Pending EXCEPT !.kind = "None"]
RetLines(m) == [Pending EXCEPT !.kind = "lines", !.lines = m]
RetBool(b) == [Pending EXCEPT !.kind = "bool", !.b = b]
RetPoint(p) == [Pending EXCEPT !.kind = "point", !.pt = p]
RetDict(d) == [Pending EXCEPT !.kind = "dict", !.dict = d]
Raise(e) == [Pending EXCEPT !.kind = "raise", !.exc = e]

\* the answer wait_answer hands back: a list of lines or None
Rep(m) == RetLines(m)
RepNone == RetNone

IdleCall == [op |-> "none", pc |-> "idle", next |-> "return", budget |-> 0,
             n_lines |-> 0, msg |-> <<>>, reads |-> 0,
             sent |-> <<>>, timedOut |-> FALSE, drained |-> FALSE,
             ioAfterTimeout |-> FALSE, opened |-> FALSE, pts |-> <<>>, todo |-> <<>>,
             success |-> TRUE, res |-> Pending,
             h0 |-> <<>>, kw |-> <<>>, acks |-> 0]

\* h0 is the history the call found, kw the keyword arguments it was given,
\* acks the number of its asks that returned lines
NewCall(op) == [IdleCall EXCEPT !.op = op, !.opened = writer, !.h0 = history]

\* ------------------------------------------- the coroutines, await to await
\* What a piece of code between two awaits does: the coroutine's new locals,
\* the command lines it hands to writer.write, and the new history.
Eff(c, out, h) == [c |-> c, out |-> out, h |-> h]

Done(c, r) == [c EXCEPT !.pc = "done", !.res = r]

\* what the code reads of the Machine while it runs
Ctx == [rd |-> reader, wr |-> writer, ok |-> OkMessage(response_ok, term_char),
        fr |-> feed_rate, es |-> endstops]

\* "G1 X{} Y{} Z{} C{} F{} S{}" of trace
TraceChain(pt, fr, es) ==
    <<Tok("G1", 0), Tok("X", pt.x), Tok("Y", pt.y), Tok("Z", pt.z),
      Tok("C", pt.c), Tok("F", fr), Tok("S", IF es THEN 1 ELSE 0)>>

\* a move command that carries the feed rate and endstop flag of a new Machine
MoveCmd_Defaults(relative, new_pos, fr, es) ==
    << <<Tok(IF relative THEN "G91" ELSE "G90", 0)>>,
       _make_position_string("G0", new_pos)
           \o <<Tok("F", DefaultFeedRate), Tok("S", 1)>> >>

\* move's "{mode}{term}{G0 ...} F{} S{}": two lines in one write
MoveCmd(relative, new_pos, fr, es) ==
    << <<Tok(IF relative THEN "G91" ELSE "G90", 0)>>,
       _make_position_string("G0", new_pos)
           \o <<Tok("F", fr), Tok("S", IF es THEN 1 ELSE 0)>> >>

\* write() that hands the line over whether or not there is a writer
WriteThen_Always(c, lines, next, h, x) ==
    Eff([c EXCEPT !.pc = "drain", !.next = next], lines, h)

\* write(): without a writer it returns False at once, else it hands the
\* line to the writer and awaits drain; next says what follows the drain
WriteThen(c, lines, next, h, x) ==
    IF x.wr THEN Eff([c EXCEPT !.pc = "drain", !.next = next], lines, h)
    ELSE Eff([c EXCEPT !.pc = "nowriter", !.next = next], <<>>, h)

RECURSIVE AfterAnswer(_, _, _, _)
RECURSIVE TraceLoop(_, _, _)
RECURSIVE WaitAnswerStart(_, _, _)
RECURSIVE AfterWrite(_, _, _)

\* wait() that goes on to its write and read without looking for a reader
WaitStart_NoCheck(c, h, x) ==
    LET w == WriteThen(c, <<<<Tok("G4", 0), Tok("S", 0)>>>>, "waitread", h, x)
    IN  IF w.c.pc = "nowriter" THEN AfterWrite(w.c, h, x) ELSE w

\* wait(): after its write, one raw readuntil
WaitStart(c, h, x) ==
    IF ~x.rd THEN Eff(Done(c, RetBool(FALSE)), <<>>, h)
    ELSE LET w == WriteThen(c, <<<<Tok("G4", 0), Tok("S", 0)>>>>, "waitread", h, x)
         IN  IF w.c.pc = "nowriter" THEN AfterWrite(w.c, h, x) ELSE w

\* the code that follows a completed (or skipped) write
AfterWrite(c, h, x) ==
    CASE c.next = "answer" -> WaitAnswerStart(c, h, x)
      [] c.next = "waitread" -> Eff([c EXCEPT !.pc = "waitread"], <<>>, h)
      [] OTHER -> Eff(Done(c, IF c.pc = "nowriter" THEN RetBool(FALSE) ELSE RetNone),
                      <<>>, h)

\* ask(): write, then wait_answer
AskStart(c, lines, n, h, x) ==
    LET w == WriteThen([c EXCEPT !.budget = n, !.n_lines = n, !.msg = <<>>],
                       lines, "answer", h, x)
    IN  IF w.c.pc = "nowriter" THEN AfterWrite(w.c, h, x) ELSE w

\* wait_answer() up to its first readline
WaitAnswerStart(c, h, x) ==
    IF ~x.rd THEN AfterAnswer(c, RepNone, h, x)
    ELSE IF c.n_lines = 0 THEN AfterAnswer(c, RepNone, h, x)
    ELSE Eff([c EXCEPT !.pc = "read"], <<>>, h)

\* wait_answer() that hands back the collected lines once the budget is used up
WaitAnswerLine_Accept(c, line, h, x) ==
    LET msg == Append(c.msg, line)
        c1 == [c EXCEPT !.msg = msg, !.n_lines = @ - 1]
    IN  IF Len(msg) > 0 /\ EndsWith(Last(msg).text, x.ok)
        THEN AfterAnswer(c1, Rep(msg), h, x)
        ELSE IF c1.n_lines = 0 THEN AfterAnswer(c1, Rep(msg), h, x)
        ELSE Eff([c1 EXCEPT !.pc = "read"], <<>>, h)

\* wait_answer() that compares the end of a line with the terminator alone
WaitAnswerLine_TermOnly(c, line, h, x) ==
    LET msg == Append(c.msg, line)
        c1 == [c EXCEPT !.msg = msg, !.n_lines = @ - 1]
    IN  IF Len(msg) > 0 /\ EndsWith(Last(msg).text, term_char)
        THEN AfterAnswer(c1, Rep(msg), h, x)
        ELSE IF c1.n_lines = 0 THEN AfterAnswer(c1, RepNone, h, x)
        ELSE Eff([c1 EXCEPT !.pc = "read"], <<>>, h)

\* wait_answer() that looks for the ok line only once the budget is used up
WaitAnswerLine_Late(c, line, h, x) ==
    LET msg == Append(c.msg, line)
        c1 == [c EXCEPT !.msg = msg, !.n_lines = @ - 1]
    IN  IF c1.n_lines > 0 THEN Eff([c1 EXCEPT !.pc = "read"], <<>>, h)
        ELSE IF EndsWith(Last(msg).text, x.ok) THEN AfterAnswer(c1, Rep(msg), h, x)
        ELSE AfterAnswer(c1, RepNone, h, x)

\* wait_answer() that does not count the lines it reads
WaitAnswerLine_NoCount(c, line, h, x) ==
    LET msg == Append(c.msg, line)
        c1 == [c EXCEPT !.msg = msg]
    IN  IF Len(msg) > 0 /\ EndsWith(Last(msg).text, x.ok)
        THEN AfterAnswer(c1, Rep(msg), h, x)
        ELSE IF c1.n_lines = 0 THEN AfterAnswer(c1, RepNone, h, x)
        ELSE Eff([c1 EXCEPT !.pc = "read"], <<>>, h)

\* wait_answer() from the return of a readline to the next one
WaitAnswerLine(c, line, h, x) ==
    LET msg == Append(c.msg, line)
        c1 == [c EXCEPT !.msg = msg, !.n_lines = @ - 1]
    IN  IF Len(msg) > 0 /\ EndsWith(Last(msg).text, x.ok)
        THEN AfterAnswer(c1, Rep(msg), h, x)
        ELSE IF c1.n_lines = 0 THEN AfterAnswer(c1, RepNone, h, x)
        ELSE Eff([c1 EXCEPT !.pc = "read"], <<>>, h)

\* wait_answer() that hands back what it had collected when a read timed out
WaitAnswerTimeout_Partial(c, h, x) ==
    AfterAnswer([c EXCEPT !.timedOut = TRUE],
                IF c.msg = <<>> THEN RepNone ELSE Rep(c.msg), h, x)

\* wait_answer() that lets the TimeoutError of readline through
WaitAnswerTimeout_Raise(c, h, x) ==
    Eff(Done([c EXCEPT !.timedOut = TRUE], Raise("TimeoutError")), <<>>, h)

\* wait_answer() when its readline raises TimeoutError: return None
WaitAnswerTimeout(c, h, x) ==
    AfterAnswer([c EXCEPT !.timedOut = TRUE], RepNone, h, x)

\* what each caller of ask / wait_answer does with the answer
AfterAnswer(c, rep, h, x) ==
    CASE c.op = "get_position" ->
            Eff(Done(c, IF rep.kind = "None" THEN Raise("TimeoutError")
                        ELSE RetPoint(ParsePosition(rep.lines[1].text, LastPoint(h)))),
                <<>>, h)
      [] c.op = "set_position" -> Eff(Done(c, RetBool(TRUE)), <<>>, h)
      [] c.op = "probe_endstops" ->
            Eff(Done(c, IF rep.kind = "None" THEN Raise("TypeError")
                        ELSE RetDict(ParseEndstops(rep.lines[1].text))),
                <<>>, h)
      [] c.op = "trace" ->
            TraceLoop([c EXCEPT !.success = c.success /\ rep.kind # "None",
                                !.acks = IF rep.kind # "None" THEN @ + 1 ELSE @], h, x)
      [] OTHER -> Eff(Done(c, rep), <<>>, h)

\* trace that sends every point whatever became of the earlier ones
TraceLoop_SendAll(c, h, x) ==
    IF c.todo = <<>>
    THEN IF c.success THEN WaitStart(c, h, x)
         ELSE Eff(Done(c, RetBool(FALSE)), <<>>, h)
    ELSE LET pt == Head(c.todo)
         IN  AskStart([c EXCEPT !.todo = Tail(@)], <<TraceChain(pt, x.fr, x.es)>>, 1,
                      AppendPoint(h, pt), x)

\* a trace that goes on to its final wait whatever its asks returned
TraceLoop_Optimistic(c, h, x) ==
    IF c.todo = <<>>
    THEN WaitStart(c, h, x)
    ELSE LET pt == Head(c.todo)
             h1 == AppendPoint(h, pt)
             c1 == [c EXCEPT !.todo = Tail(@)]
         IN  IF c.success
             THEN AskStart(c1, <<TraceChain(pt, x.fr, x.es)>>, 1, h1, x)
             ELSE TraceLoop(c1, h1, x)

\* the for loop of trace from the top of an iteration, and its last line
TraceLoop(c, h, x) ==
    IF c.todo = <<>>
    THEN IF c.success THEN WaitStart(c, h, x)
         ELSE Eff(Done(c, RetBool(FALSE)), <<>>, h)
    ELSE LET pt == Head(c.todo)
             h1 == AppendPoint(h, pt)
             c1 == [c EXCEPT !.todo = Tail(@)]
         IN  IF c.success
             THEN AskStart(c1, <<TraceChain(pt, x.fr, x.es)>>, 1, h1, x)
             ELSE TraceLoop(c1, h1, x)

\* a drain timeout that takes back the point a move had appended
DrainFailed_Rollback(c, h) ==
    Eff(Done([c EXCEPT !.timedOut = TRUE],
             IF c.op = "set_position" THEN RetBool(FALSE) ELSE Raise("TimeoutError")),
        <<>>,
        IF c.op = "move"
        THEN [h EXCEPT ![Len(h)].pts = SubSeq(@, 1, Len(@) - 1)]
        ELSE h)

\* the TimeoutError of a drain, as it leaves each coroutine
DrainFailed(c, h) ==
    Eff(Done([c EXCEPT !.timedOut = TRUE],
             IF c.op = "set_position" THEN RetBool(FALSE) ELSE Raise("TimeoutError")),
        <<>>, h)

Init ==
    /\ port \in {<<>>, <<"p">>}
    /\ reader = FALSE
    /\ writer = FALSE
    /\ term_char = DefaultTermChar
    /\ response_ok = DefaultResponseOk
    /\ feed_rate = DefaultFeedRate
    /\ endstops = TRUE
    /\ serial_baud_rate = DefaultBaudRate
    /\ timeout = Seconds(DefaultTimeout)
    /\ attr_baud_rate = <<>>
    /\ history = <<[StyledPath EXCEPT !.pts = <<Origin>>]>>
    /\ call = [t \in Tasks |-> IdleCall]
    /\ transport = "none"
    /\ wire = <<>>
    /\ rx = <<>>
    /\ devOk = TRUE

\* ------------------------------------------------ bounds on what is called
RECURSIVE TotalPts(_)
TotalPts(h) == IF h = <<>> THEN 0 ELSE Len(Head(h).pts) + TotalPts(Tail(h))

CanWrite(k) == ~writer \/ Len(wire) + k <= MaxWire
CanAppend(k) == TotalPts(history) + k <= MaxPts
CanBegin(t) == call[t].pc \in {"idle", "done"}

\* ------------------------------------------------------------- the inputs
CmdLine == <<Tok("CMD", 0)>>
Arg(k, v) == [key |-> k, val |-> v]
None == [some |-> FALSE, v |-> <<>>]
Some(l) == [some |-> TRUE, v |-> l]

OkLine == <<"o", "k", "\n">>
PosLine == <<"X", ":", "2", "\n">>
LineTexts == {OkLine, PosLine}
Replies == UNION {[1..n -> LineTexts] : n \in {0, 1, 2}}
NLines == {0, 1, 2}

\* --------------------------------------------------------- the transport
\* writer.write(data): the lines reach the device only over an open transport
Older(q) == [i \in 1..Len(q) |-> "old"]
OlderReplies(q) == [i \in 1..Len(q) |-> [q[i] EXCEPT !.of = "old"]]

Transmit(out, unread) ==
    IF out = <<>> THEN wire' = wire /\ rx' = unread
    ELSE /\ wire' = IF transport = "open"
                    THEN Older(wire) \o [i \in 1..Len(out) |-> "cur"]
                    ELSE Older(wire)
         /\ rx' = OlderReplies(unread)

\* one step of a coroutine of task t: its locals, its writes, the history;
\* unread is what the step leaves of the reply lines
Apply(t, e, unread) ==
    /\ call' = [call EXCEPT ![t] =
                  [e.c EXCEPT !.sent = @ \o e.out,
                              !.ioAfterTimeout = @ \/ (e.c.timedOut /\ e.out # <<>>)]]
    /\ Transmit(e.out, unread)
    /\ history' = e.h

\* the device takes the next command line and answers it
DeviceReply(texts) ==
    /\ transport = "open"
    /\ wire # <<>>
    /\ Len(rx) + Len(texts) <= MaxRx
    /\ wire' = Tail(wire)
    /\ rx' = rx \o [i \in 1..Len(texts) |-> [of |-> Head(wire), text |-> texts[i]]]
    /\ devOk' = (devOk /\ texts # <<>> /\ EndsWith(Last(texts), OkLine))
    /\ UNCHANGED <<settings, reader, writer, history, call, transport>>

\* ------------------------------------------------------ open and close
\* open() that connects without looking for an existing connection
Open_NoCheck(t) ==
    /\ CanBegin(t)
    /\ call' = [call EXCEPT ![t] =
          IF Len(port) = 0 THEN Done(NewCall("open"), Raise("ValueError"))
          ELSE [NewCall("open") EXCEPT !.pc = "opening"]]
    /\ UNCHANGED <<settings, reader, writer, history, transport, wire, rx, devOk>>

Open(t) ==
    /\ CanBegin(t)
    /\ call' = [call EXCEPT ![t] =
          IF reader \/ writer THEN Done(NewCall("open"), Raise("SerialException"))
          ELSE IF Len(port) = 0 THEN Done(NewCall("open"), Raise("ValueError"))
          ELSE [NewCall("open") EXCEPT !.pc = "opening"]]
    /\ UNCHANGED <<settings, reader, writer, history, transport, wire, rx, devOk>>

OpenDone(t) ==
    /\ call[t].pc = "opening"
    /\ reader' = TRUE
    /\ writer' = TRUE
    /\ transport' = "open"
    /\ wire' = <<>>
    /\ rx' = <<>>
    /\ call' = [call EXCEPT ![t] = Done(@, RetBool(TRUE))]
    /\ UNCHANGED <<settings, history, devOk>>

OpenFail(t) ==
    /\ call[t].pc = "opening"
    /\ call' = [call EXCEPT ![t] = Done(@, Raise("SerialException"))]
    /\ UNCHANGED <<settings, reader, writer, history, transport, wire, rx, devOk>>

\* close() that awaits wait_closed whether or not there is a writer
Close_Unguarded(t) ==
    /\ CanBegin(t)
    /\ transport' = "closing"
    /\ call' = [call EXCEPT ![t] = [NewCall("close") EXCEPT !.pc = "closing"]]
    /\ UNCHANGED <<settings, reader, writer, history, wire, rx, devOk>>

Close(t) ==
    /\ CanBegin(t)
    /\ IF writer
       THEN /\ transport' = "closing"
            /\ call' = [call EXCEPT ![t] = [NewCall("close") EXCEPT !.pc = "closing"]]
       ELSE /\ transport' = transport
            /\ call' = [call EXCEPT ![t] = Done(NewCall("close"), RetBool(FALSE))]
    /\ UNCHANGED <<settings, reader, writer, history, wire, rx, devOk>>

\* a close() that forgets the writer and keeps the reader
CloseDone_ReaderKept(t) ==
    /\ call[t].pc = "closing"
    /\ reader' = reader
    /\ writer' = FALSE
    /\ transport' = "none"
    /\ wire' = <<>>
    /\ rx' = <<>>
    /\ call' = [call EXCEPT ![t] = Done(@, RetBool(TRUE))]
    /\ UNCHANGED <<settings, history, devOk>>

CloseDone(t) ==
    /\ call[t].pc = "closing"
    /\ reader' = FALSE
    /\ writer' = FALSE
    /\ transport' = "none"
    /\ wire' = <<>>
    /\ rx' = <<>>
    /\ call' = [call EXCEPT ![t] = Done(@, RetBool(TRUE))]
    /\ UNCHANGED <<settings, history, devOk>>

CloseTimeout(t) ==
    /\ call[t].pc = "closing"
    /\ call' = [call EXCEPT ![t] = Done([call[t] EXCEPT !.timedOut = TRUE],
                                        Raise("TimeoutError"))]
    /\ UNCHANGED <<settings, reader, writer, history, transport, wire, rx, devOk>>

\* ----------------------------------------------------------- the setters
\* A setter is a plain method: it runs to its end in one step.  The call
\* record keeps the value it was given and what it returned or raised.
link == <<reader, writer, transport, wire, rx, devOk>>

Setter(op, v, r) == Done([NewCall(op) EXCEPT !.kw = <<[key |-> "value", val |-> v]>>], r)

set_port(t, p) ==
    /\ CanBegin(t)
    /\ IF Len(p) = 0
       THEN /\ call' = [call EXCEPT ![t] = Setter("set_port", p, Raise("ValueError"))]
            /\ port' = port
       ELSE IF reader \/ writer
       THEN /\ call' = [call EXCEPT ![t] = Setter("set_port", p, Raise("SerialException"))]
            /\ port' = port
       ELSE /\ call' = [call EXCEPT ![t] = Setter("set_port", p, RetNone)]
            /\ port' = p
    /\ UNCHANGED <<term_char, response_ok, feed_rate, endstops, serial_baud_rate, timeout,
                   attr_baud_rate, history, link>>

set_baud_rate(t, baud_rate) ==
    /\ CanBegin(t)
    /\ IF reader \/ writer
       THEN /\ call' = [call EXCEPT ![t] =
                          Setter("set_baud_rate", baud_rate, Raise("SerialException"))]
            /\ serial_baud_rate' = serial_baud_rate
       ELSE IF baud_rate <= 0
       THEN /\ call' = [call EXCEPT ![t] =
                          Setter("set_baud_rate", baud_rate, Raise("ValueError"))]
            /\ serial_baud_rate' = serial_baud_rate
       ELSE /\ call' = [call EXCEPT ![t] = Setter("set_baud_rate", baud_rate, RetNone)]
            /\ serial_baud_rate' = baud_rate
    /\ UNCHANGED <<port, term_char, response_ok, feed_rate, endstops, timeout,
                   attr_baud_rate, history, link>>

set_timeout(t, v) ==
    /\ CanBegin(t)
    /\ IF ~v.inf /\ v.s < 0
       THEN /\ call' = [call EXCEPT ![t] = Setter("set_timeout", v, Raise("ValueError"))]
            /\ timeout' = timeout
       ELSE /\ call' = [call EXCEPT ![t] = Setter("set_timeout", v, RetNone)]
            /\ timeout' = v
    /\ UNCHANGED <<port, term_char, response_ok, feed_rate, endstops, serial_baud_rate,
                   attr_baud_rate, history, link>>

set_term_char(t, c) ==
    /\ CanBegin(t)
    /\ call' = [call EXCEPT ![t] = Setter("set_term_char", c, RetNone)]
    /\ term_char' = c
    /\ UNCHANGED <<port, response_ok, feed_rate, endstops, serial_baud_rate, timeout,
                   attr_baud_rate, history, link>>

set_response_ok(t, response) ==
    /\ CanBegin(t)
    /\ IF Len(response) = 0
       THEN /\ call' = [call EXCEPT ![t] =
                          Setter("set_response_ok", response, Raise("ValueError"))]
            /\ response_ok' = response_ok
       ELSE /\ call' = [call EXCEPT ![t] = Setter("set_response_ok", response, RetNone)]
            /\ response_ok' = response
    /\ UNCHANGED <<port, term_char, feed_rate, endstops, serial_baud_rate, timeout,
                   attr_baud_rate, history, link>>

\* a set_feed_rate that takes any value
set_feed_rate_Unchecked(t, v) ==
    /\ CanBegin(t)
    /\ call' = [call EXCEPT ![t] = Setter("set_feed_rate", v, RetNone)]
    /\ feed_rate' = v
    /\ UNCHANGED <<port, term_char, response_ok, endstops, serial_baud_rate, timeout,
                   attr_baud_rate, history, link>>

set_feed_rate(t, v) ==
    /\ CanBegin(t)
    /\ IF v <= 0
       THEN /\ call' = [call EXCEPT ![t] = Setter("set_feed_rate", v, Raise("ValueError"))]
            /\ feed_rate' = feed_rate
       ELSE /\ call' = [call EXCEPT ![t] = Setter("set_feed_rate", v, RetNone)]
            /\ feed_rate' = v
    /\ UNCHANGED <<port, term_char, response_ok, endstops, serial_baud_rate, timeout,
                   attr_baud_rate, history, link>>

enable_endstops(t) ==
    /\ CanBegin(t)
    /\ call' = [call EXCEPT ![t] = Setter("enable_endstops", TRUE, RetNone)]
    /\ endstops' = TRUE
    /\ UNCHANGED <<port, term_char, response_ok, feed_rate, serial_baud_rate, timeout,
                   attr_baud_rate, history, link>>

disable_endstops(t) ==
    /\ CanBegin(t)
    /\ call' = [call EXCEPT ![t] = Setter("disable_endstops", FALSE, RetNone)]
    /\ endstops' = FALSE
    /\ UNCHANGED <<port, term_char, response_ok, feed_rate, serial_baud_rate, timeout,
                   attr_baud_rate, history, link>>

\* ------------------------------------------------ the synchronous facade
\* The properties of SyncMachine: each assignment is a setattr on the wrapped
\* Machine, under the name the lambda gives.  "baud_rate" is no property of
\* Machine: the assignment creates an attribute of that name.
SyncProperties == {"feed_rate", "port", "serial_baud_rate", "timeout", "term_char",
                   "response_ok", "tool_size"}

setattr_baud_rate(t, v) ==
    /\ CanBegin(t)
    /\ call' = [call EXCEPT ![t] = Setter("setattr_baud_rate", v, RetNone)]
    /\ attr_baud_rate' = <<v>>
    /\ UNCHANGED <<port, term_char, response_ok, feed_rate, endstops, serial_baud_rate,
                   timeout, history, link>>

\* a set_tool_size that opens a segment whatever the last segment holds
NewSegment_Always(h, tool_size) ==
    LET h1 == IF Last(h).tool_size # tool_size
              THEN Append(h, [StyledPath EXCEPT !.pts = <<LastPoint(h)>>])
              ELSE h
    IN  [h1 EXCEPT ![Len(h1)].tool_size = tool_size]

\* the history set_tool_size leaves: a new segment seeded with the last point
\* when the last segment has more than one point and another tool size
NewSegment(h, tool_size) ==
    LET h1 == IF Len(Last(h).pts) > 1 /\ Last(h).tool_size # tool_size
              THEN Append(h, [StyledPath EXCEPT !.pts = <<LastPoint(h)>>])
              ELSE h
    IN  [h1 EXCEPT ![Len(h1)].tool_size = tool_size]

set_tool_size(t, tool_size) ==
    /\ CanBegin(t)
    /\ IF tool_size <= 0
       THEN /\ call' = [call EXCEPT ![t] =
                          Setter("set_tool_size", tool_size, Raise("ValueError"))]
            /\ history' = history
       ELSE /\ TotalPts(NewSegment(history, tool_size)) <= MaxPts
            /\ call' = [call EXCEPT ![t] = Setter("set_tool_size", tool_size, RetNone)]
            /\ history' = NewSegment(history, tool_size)
    /\ UNCHANGED <<settings, link>>

\* SyncMachine.<name> = v
SyncMachine_set(t, name, v) ==
    CASE name = "feed_rate" -> set_feed_rate(t, v)
      [] name = "port" -> set_port(t, v)
      [] name = "serial_baud_rate" -> setattr_baud_rate(t, v)
      [] name = "timeout" -> set_timeout(t, v)
      [] name = "term_char" -> set_term_char(t, v)
      [] name = "response_ok" -> set_response_ok(t, v)
      [] name = "tool_size" -> set_tool_size(t, v)

\* --------------------------------------------- the calls, up to first await
io == <<settings, reader, writer, transport, devOk>>

WriteStart(c, lines, h, x) ==
    LET w == WriteThen(c, lines, "return", h, x)
    IN  IF w.c.pc = "nowriter" THEN AfterWrite(w.c, h, x) ELSE w

Write(t, cmd) ==
    /\ CanBegin(t) /\ CanWrite(1)
    /\ Apply(t, WriteStart(NewCall("write"), <<cmd>>, history, Ctx), rx)
    /\ UNCHANGED io

Readline(t) ==
    /\ CanBegin(t)
    /\ call' = [call EXCEPT ![t] =
          IF ~reader THEN Done(NewCall("readline"), RetNone)
          ELSE [NewCall("readline") EXCEPT !.pc = "readline"]]
    /\ UNCHANGED <<io, history, wire, rx>>

WaitAnswer(t, n) ==
    /\ CanBegin(t)
    /\ Apply(t, WaitAnswerStart([NewCall("wait_answer") EXCEPT !.budget = n, !.n_lines = n],
                                history, Ctx), rx)
    /\ UNCHANGED io

Ask(t, cmd, n) ==
    /\ CanBegin(t) /\ CanWrite(1)
    /\ Apply(t, AskStart(NewCall("ask"), <<cmd>>, n, history, Ctx), rx)
    /\ UNCHANGED io

Wait(t) ==
    /\ CanBegin(t) /\ CanWrite(1)
    /\ Apply(t, WaitStart(NewCall("wait"), history, Ctx), rx)
    /\ UNCHANGED io

\* get_position() that answers with a fresh Point() when disconnected
GetPosition_Origin(t) ==
    /\ CanBegin(t) /\ CanWrite(1)
    /\ Apply(t, IF ~writer
                THEN Eff(Done(NewCall("get_position"), RetPoint(Origin)), <<>>, history)
                ELSE AskStart(NewCall("get_position"), <<<<Tok("M114", 0)>>>>, 2, history, Ctx), rx)
    /\ UNCHANGED <<settings, reader, writer, transport, devOk>>

GetPosition(t) ==
    /\ CanBegin(t) /\ CanWrite(1)
    /\ Apply(t, IF ~writer
                THEN Eff(Done(NewCall("get_position"),
                              RetPoint(IF Len(history) > 0 THEN LastPoint(history) ELSE Origin)),
                         <<>>, history)
                ELSE AskStart(NewCall("get_position"), <<<<Tok("M114", 0)>>>>, 2, history, Ctx), rx)
    /\ UNCHANGED io

SetPosition(t, kwargs) ==
    /\ CanBegin(t) /\ CanWrite(1)
    /\ LET new_pos == _parse_position(kwargs)
           h1 == IF Len(history) > 0
                 THEN SetLastPoint(history, SetAll(LastPoint(history), new_pos))
                 ELSE history
       IN  Apply(t, IF ~writer \/ Len(new_pos) = 0
                    THEN Eff(Done([NewCall("set_position") EXCEPT !.kw = kwargs],
                                  RetBool(FALSE)), <<>>, h1)
                    ELSE AskStart([NewCall("set_position") EXCEPT !.kw = kwargs],
                                  <<_make_position_string("G92", new_pos)>>, 1, h1, Ctx), rx)
    /\ UNCHANGED io

Move(t, relative, kwargs) ==
    /\ CanBegin(t) /\ CanWrite(2) /\ CanAppend(1)
    /\ LET new_pos == _parse_position(kwargs)
           cmd == MoveCmd(relative, new_pos, feed_rate, endstops)
           pt == SetAll(Origin, new_pos)
       IN  Apply(t, WriteStart([NewCall("move") EXCEPT !.kw = kwargs], cmd,
                               AppendPoint(history, pt), Ctx), rx)
    /\ UNCHANGED io

AbsMove(t, kwargs) == Move(t, FALSE, kwargs)

RelMove(t, kwargs) == Move(t, TRUE, kwargs)

ProbeEndstops(t) ==
    /\ CanBegin(t) /\ CanWrite(1)
    /\ Apply(t, IF ~writer
                THEN Eff(Done(NewCall("probe_endstops"), RetDict(NoDict)), <<>>, history)
                ELSE AskStart(NewCall("probe_endstops"), <<<<Tok("M119", 0)>>>>, 2, history, Ctx), rx)
    /\ UNCHANGED io

SwitchMotors(t, state) ==
    /\ CanBegin(t) /\ CanWrite(1)
    /\ Apply(t, WriteStart([NewCall("switch_motors") EXCEPT !.kw = <<Arg("state", state)>>],
                           <<IF state THEN <<Tok("M84", 0), Tok("S", 30)>> ELSE <<Tok("M18", 0)>>>>,
                           history, Ctx), rx)
    /\ UNCHANGED io

OptLen(o) == Len(o.v)
OptAt(o, n) == IF o.some THEN o.v[n] ELSE 0

\* a trace that checks nothing and takes as many points as its shortest vector
Trace_Unchecked(t, xs, ys, zs, cs) ==
    /\ CanBegin(t)
    /\ LET lens == {OptLen(o) : o \in {o \in {xs, ys, zs, cs} : o.some}}
           Npts == IF lens = {} THEN 0 ELSE CHOOSE n \in lens : \A k \in lens : n <= k
           pts == [n \in 1..Npts |-> Point(OptAt(xs, n), OptAt(ys, n), OptAt(zs, n), OptAt(cs, n))]
       IN  /\ CanWrite(Npts + 1) /\ CanAppend(Npts)
           /\ Apply(t, TraceLoop([NewCall("trace") EXCEPT !.pts = pts, !.todo = pts,
                                                      !.kw = <<xs, ys, zs, cs>>],
                                  history, Ctx), rx)
    /\ UNCHANGED io

Trace(t, xs, ys, zs, cs) ==
    /\ CanBegin(t)
    /\ LET Npts == IF xs.some THEN OptLen(xs) ELSE IF ys.some THEN OptLen(ys)
                   ELSE IF zs.some THEN OptLen(zs) ELSE OptLen(cs)
           pts == [n \in 1..Npts |-> Point(OptAt(xs, n), OptAt(ys, n), OptAt(zs, n), OptAt(cs, n))]
       IN  IF ~xs.some /\ ~ys.some /\ ~zs.some /\ ~cs.some
           THEN Apply(t, Eff(Done([NewCall("trace") EXCEPT !.kw = <<xs, ys, zs, cs>>],
                                  Raise("ValueError")), <<>>, history), rx)
           ELSE IF \/ (xs.some /\ OptLen(xs) # Npts) \/ (ys.some /\ OptLen(ys) # Npts)
                   \/ (zs.some /\ OptLen(zs) # Npts) \/ (cs.some /\ OptLen(cs) # Npts)
           THEN Apply(t, Eff(Done([NewCall("trace") EXCEPT !.kw = <<xs, ys, zs, cs>>],
                                  Raise("ValueError")), <<>>, history), rx)
           ELSE /\ CanWrite(Npts + 1) /\ CanAppend(Npts)
                /\ Apply(t, TraceLoop([NewCall("trace") EXCEPT !.pts = pts, !.todo = pts,
                                                           !.kw = <<xs, ys, zs, cs>>],
                                       history, Ctx), rx)
    /\ UNCHANGED io

\* ------------------------------------------------ the resumed awaits
\* await drain(): completed
DrainDone(t) ==
    /\ call[t].pc = "drain"
    /\ Apply(t, AfterWrite([call[t] EXCEPT !.drained = TRUE], history, Ctx), rx)
    /\ UNCHANGED io

\* await drain(): TimeoutError
DrainTimeout(t) ==
    /\ call[t].pc = "drain"
    /\ Apply(t, DrainFailed(call[t], history), rx)
    /\ UNCHANGED io

Attempt(c) == [c EXCEPT !.reads = @ + 1, !.ioAfterTimeout = @ \/ c.timedOut]

\* readline() inside wait_answer returns a line
ReadLine(t) ==
    /\ call[t].pc = "read"
    /\ rx # <<>>
    /\ Apply(t, IF ~reader
                THEN Eff(Done(call[t], Raise("AttributeError")), <<>>, history)
                ELSE WaitAnswerLine(Attempt(call[t]), Head(rx), history, Ctx), Tail(rx))
    /\ UNCHANGED <<settings, reader, writer, transport, devOk>>

\* readline() inside wait_answer: TimeoutError, caught by wait_answer
ReadTimeout(t) ==
    /\ call[t].pc = "read"
    /\ rx = <<>>
    /\ Apply(t, IF ~reader
                THEN Eff(Done(call[t], Raise("AttributeError")), <<>>, history)
                ELSE WaitAnswerTimeout(Attempt(call[t]), history, Ctx), rx)
    /\ UNCHANGED io

\* the readuntil of wait() returns a line
WaitLine(t) ==
    /\ call[t].pc = "waitread"
    /\ rx # <<>>
    /\ Apply(t, Eff(Done([Attempt(call[t]) EXCEPT !.msg = <<Head(rx)>>], RetBool(TRUE)),
                    <<>>, history), Tail(rx))
    /\ UNCHANGED <<settings, reader, writer, transport, devOk>>

\* the readuntil of wait(): TimeoutError, caught by wait
WaitTimeout(t) ==
    /\ call[t].pc = "waitread"
    /\ rx = <<>>
    /\ Apply(t, Eff(Done([Attempt(call[t]) EXCEPT !.timedOut = TRUE], RetBool(FALSE)),
                    <<>>, history), rx)
    /\ UNCHANGED io

\* readline() called on its own returns a line
ReadlineLine(t) ==
    /\ call[t].pc = "readline"
    /\ rx # <<>>
    /\ Apply(t, Eff(Done([Attempt(call[t]) EXCEPT !.msg = <<Head(rx)>>],
                         [RetLines(<<Head(rx)>>) EXCEPT !.kind = "bytes"]),
                    <<>>, history), Tail(rx))
    /\ UNCHANGED <<settings, reader, writer, transport, devOk>>

\* readline() called on its own: TimeoutError
ReadlineTimeout(t) ==
    /\ call[t].pc = "readline"
    /\ rx = <<>>
    /\ Apply(t, Eff(Done([Attempt(call[t]) EXCEPT !.timedOut = TRUE], Raise("TimeoutError")),
                    <<>>, history), rx)
    /\ UNCHANGED io

\* readuntil() called while another coroutine is suspended in a read of the
\* same StreamReader: asyncio refuses the second waiter with RuntimeError,
\* which wait_answer does not catch
Reading(u) == call[u].pc \in {"read", "waitread", "readline"}

ReadBusy(t) ==
    /\ call[t].pc = "read"
    /\ rx = <<>>
    /\ \E u \in Tasks \ {t} : Reading(u)
    /\ Apply(t, Eff(Done(Attempt(call[t]), Raise("RuntimeError")), <<>>, history), rx)
    /\ UNCHANGED io

\* ------------------------------------------------------- specifications
Resume(t) ==
    \/ OpenDone(t) \/ OpenFail(t) \/ CloseDone(t) \/ CloseTimeout(t)
    \/ DrainDone(t) \/ DrainTimeout(t)
    \/ ReadLine(t) \/ ReadTimeout(t)
    \/ WaitLine(t) \/ WaitTimeout(t)
    \/ ReadlineLine(t) \/ ReadlineTimeout(t)

KwargsIO == {<<>>, <<Arg("x", 1)>>}

\* the arguments xs, ys, zs, cs of the calls of trace
TraceArgs == {<<None, None, None, None>>,
              <<Some(<<1, 2>>), None, None, None>>,
              <<Some(<<1, 2>>), Some(<<1>>), None, None>>}

\* The correlator: one caller that awaits each call before the next one,
\* and the device.
Next ==
    \/ Open(1) \/ Close(1)
    \/ Write(1, CmdLine) \/ Readline(1)
    \/ \E n \in NLines : WaitAnswer(1, n)
    \/ \E n \in NLines : Ask(1, CmdLine, n)
    \/ Wait(1)
    \/ AbsMove(1, <<Arg("x", 1)>>)
    \/ RelMove(1, <<Arg("x", 1)>>)
    \/ \E state \in BOOLEAN : SwitchMotors(1, state)
    \/ Resume(1)
    \/ \E texts \in Replies : DeviceReply(texts)

Spec == Init /\ [][Next]_vars

\* The operations built on ask and wait, same caller, same device.
NextOps ==
    \/ Open(1) \/ Close(1)
    \/ \E n \in NLines : Ask(1, CmdLine, n)
    \/ Wait(1)
    \/ GetPosition(1)
    \/ \E kw \in KwargsIO : SetPosition(1, kw)
    \/ ProbeEndstops(1)
    \/ \E a \in TraceArgs : Trace(1, a[1], a[2], a[3], a[4])
    \/ OpenDone(1) \/ OpenFail(1) \/ CloseDone(1) \/ CloseTimeout(1)
    \/ DrainDone(1) \/ DrainTimeout(1)
    \/ ReadLine(1) \/ ReadTimeout(1)
    \/ WaitLine(1) \/ WaitTimeout(1)
    \/ \E texts \in Replies : DeviceReply(texts)

SpecOps == Init /\ [][NextOps]_vars

\* The commands of a session: moves and motor switches, which read no reply,
\* followed by ask and wait, which do.
NextCmd ==
    \/ Open(1)
    \/ \E n \in {1, 2} : Ask(1, CmdLine, n)
    \/ Wait(1)
    \/ AbsMove(1, <<Arg("x", 1)>>)
    \/ RelMove(1, <<Arg("x", 1)>>)
    \/ \E state \in BOOLEAN : SwitchMotors(1, state)
    \/ OpenDone(1) \/ OpenFail(1)
    \/ DrainDone(1) \/ DrainTimeout(1)
    \/ ReadLine(1) \/ ReadTimeout(1)
    \/ WaitLine(1) \/ WaitTimeout(1)
    \/ \E texts \in Replies : DeviceReply(texts)

SpecCmd == Init /\ [][NextCmd]_vars

\* Two callers that run ask at the same time on one Machine (asyncio.gather),
\* and the device.
NextPar ==
    \/ Open(1) \/ OpenDone(1) \/ OpenFail(1)
    \/ \E t \in Tasks :
          \/ \E n \in {1, 2} : Ask(t, CmdLine, n)
          \/ DrainDone(t) \/ DrainTimeout(t)
          \/ ReadLine(t) \/ ReadTimeout(t) \/ ReadBusy(t)
    \/ \E texts \in Replies : DeviceReply(texts)

SpecPar == Init /\ [][NextPar]_vars

\* the arguments of trace that give a point sequence
TracePoints == {<<Some(<<>>), None, None, None>>,
                <<Some(<<1, 2>>), None, None, None>>,
                <<None, Some(<<1>>), None, Some(<<2>>)>>}

KwargsMove == {<<Arg("x", 1)>>, <<Arg("y", 2)>>, <<Arg("foo", 3)>>}

\* A caller that uses the Machine only while no connection is open, before
\* the first open and between a close and the next open.
NextOff ==
    \/ Open(1) \/ OpenDone(1) \/ OpenFail(1)
    \/ Close(1) \/ CloseDone(1) \/ CloseTimeout(1)
    \/ ~writer /\ Write(1, CmdLine)
    \/ ~writer /\ Readline(1)
    \/ \E n \in NLines : ~writer /\ Ask(1, CmdLine, n)
    \/ ~writer /\ Wait(1)
    \/ ~writer /\ GetPosition(1)
    \/ \E kw \in KwargsMove : ~writer /\ SetPosition(1, kw)
    \/ \E kw \in KwargsMove : ~writer /\ AbsMove(1, kw)
    \/ \E kw \in KwargsMove : ~writer /\ RelMove(1, kw)
    \/ ~writer /\ ProbeEndstops(1)
    \/ \E state \in BOOLEAN : ~writer /\ SwitchMotors(1, state)
    \/ \E a \in TracePoints : ~writer /\ Trace(1, a[1], a[2], a[3], a[4])

SpecOff == Init /\ [][NextOff]_vars

\* what the device answers to a move, a coordinate reset or a position query
MoveReplies == {<<>>, <<OkLine>>, <<PosLine, OkLine>>}

\* The motion history: moves and coordinate resets, with and without a
\* connection, and the position query that reads the history back.
NextMove ==
    \/ Open(1) \/ OpenDone(1) \/ OpenFail(1)
    \/ \E kw \in KwargsMove : AbsMove(1, kw)
    \/ RelMove(1, <<Arg("x", 1)>>)
    \/ \E kw \in KwargsMove : SetPosition(1, kw)
    \/ GetPosition(1)
    \/ DrainDone(1) \/ DrainTimeout(1)
    \/ ReadLine(1) \/ ReadTimeout(1)
    \/ \E texts \in MoveReplies : DeviceReply(texts)

SpecMove == Init /\ [][NextMove]_vars

\* the values handed to the setters
Ports == {<<>>, <<"p">>, <<"q">>}
BaudRates == {0, 9600}
Timeouts == {Seconds(-1), Seconds(0), Infinite}
TermChars == {<<"\n">>, <<"\r">>}
OkTokens == {<<>>, <<"o", "k">>, <<"O", "K">>}
FeedRates == {0, 50}
ToolSizes == {-1, 0, 1, 2}

\* The settings: every setter, with and without a connection.
NextSet ==
    \/ Open(1) \/ OpenDone(1) \/ OpenFail(1)
    \/ Close(1) \/ CloseDone(1) \/ CloseTimeout(1)
    \/ \E p \in Ports : set_port(1, p)
    \/ \E b \in BaudRates : set_baud_rate(1, b)
    \/ \E v \in Timeouts : set_timeout(1, v)
    \/ \E c \in TermChars : set_term_char(1, c)
    \/ \E r \in OkTokens : set_response_ok(1, r)
    \/ \E v \in FeedRates : set_feed_rate(1, v)
    \/ \E v \in ToolSizes : set_tool_size(1, v)

SpecSet == Init /\ [][NextSet]_vars

\* The segments of the history: moves, coordinate resets and traces, with
\* changes of tool size in between.
NextHist ==
    \/ Open(1) \/ OpenDone(1) \/ OpenFail(1)
    \/ \E kw \in KwargsMove : AbsMove(1, kw)
    \/ \E kw \in KwargsMove : SetPosition(1, kw)
    \/ Trace(1, Some(<<1>>), None, None, None)
    \/ \E v \in ToolSizes : set_tool_size(1, v)
    \/ DrainDone(1) \/ DrainTimeout(1)
    \/ ReadLine(1) \/ ReadTimeout(1)
    \/ WaitLine(1) \/ WaitTimeout(1)
    \/ \E texts \in {<<>>, <<OkLine>>} : DeviceReply(texts)

SpecHist == Init /\ [][NextHist]_vars

\* "X:2 y:-1", and "X: not stopped, Z: min, C: on" (no comma after C's status)
PosLine2 == <<"X", ":", "2", " ", "y", ":", "-", "1", "\n">>
EndLine == <<"X", ":", " ", "n", "o", "t", " ", "s", "t", "o", "p", "p", "e", "d", ",", " ",
             "Z", ":", " ", "m", "i", "n", ",", " ", "C", ":", " ", "o", "n", "\n">>
QueryReplies == {<<>>, <<OkLine>>, <<PosLine, OkLine>>, <<PosLine2, OkLine>>,
                 <<EndLine, OkLine>>}

\* The queries: position and endstops read back from the device, the local
\* position being set beforehand.
NextQuery ==
    \/ Open(1) \/ OpenDone(1) \/ OpenFail(1)
    \/ \E kw \in KwargsMove : SetPosition(1, kw)
    \/ GetPosition(1)
    \/ ProbeEndstops(1)
    \/ DrainDone(1) \/ DrainTimeout(1)
    \/ ReadLine(1) \/ ReadTimeout(1)
    \/ \E texts \in QueryReplies : DeviceReply(texts)

SpecQuery == Init /\ [][NextQuery]_vars

\* The motion parameters: feed rate and endstop flag set between moves.
NextFeed ==
    \/ Open(1) \/ OpenDone(1) \/ OpenFail(1)
    \/ \E kw \in KwargsMove : AbsMove(1, kw)
    \/ \E kw \in KwargsMove : RelMove(1, kw)
    \/ \E v \in FeedRates : set_feed_rate(1, v)
    \/ enable_endstops(1) \/ disable_endstops(1)
    \/ DrainDone(1) \/ DrainTimeout(1)
    \/ \E texts \in {<<>>, <<OkLine>>} : DeviceReply(texts)

SpecFeed == Init /\ [][NextFeed]_vars

\* keyword arguments naming several axes, in and out of declaration order
KwargsOrder == {<<Arg("x", 1), Arg("y", 2)>>, <<Arg("y", 2), Arg("x", 1)>>,
                <<Arg("c", 3), Arg("foo", 3), Arg("Z", 1)>>, <<Arg("x", 1), Arg("X", 2)>>}

\* The positioning commands: moves and coordinate resets naming several axes.
NextAxes ==
    \/ Open(1) \/ OpenDone(1) \/ OpenFail(1)
    \/ \E kw \in KwargsOrder : AbsMove(1, kw)
    \/ SetPosition(1, <<Arg("y", 2), Arg("x", 1)>>)
    \/ DrainDone(1) \/ DrainTimeout(1)
    \/ ReadLine(1) \/ ReadTimeout(1)
    \/ DeviceReply(<<OkLine>>)

SpecAxes == Init /\ [][NextAxes]_vars

\* the values assigned to each property of the facade
SyncValues(name) ==
    CASE name = "feed_rate" -> FeedRates
      [] name = "port" -> Ports
      [] name = "serial_baud_rate" -> BaudRates
      [] name = "timeout" -> Timeouts
      [] name = "term_char" -> TermChars
      [] name = "response_ok" -> OkTokens
      [] name = "tool_size" -> ToolSizes

\* The synchronous facade: its properties and its open and close, each run
\* to completion before the caller goes on.
NextSync ==
    \/ Open(1) \/ OpenDone(1) \/ OpenFail(1)
    \/ Close(1) \/ CloseDone(1) \/ CloseTimeout(1)
    \/ \E name \in SyncProperties : \E v \in SyncValues(name) : SyncMachine_set(1, name, v)

SpecSync == Init /\ [][NextSync]_vars

\* The connection: two callers that open, close, write and ask with no
\* order between them.
NextConn ==
    \/ \E t \in Tasks :
          \/ Open(t) \/ OpenDone(t) \/ OpenFail(t)
          \/ Close(t) \/ CloseDone(t) \/ CloseTimeout(t)
          \/ Write(t, CmdLine)
          \/ Ask(t, CmdLine, 1)
          \/ DrainDone(t) \/ DrainTimeout(t)
          \/ ReadLine(t) \/ ReadTimeout(t) \/ ReadBusy(t)
    \/ DeviceReply(<<OkLine>>)

SpecConn == Init /\ [][NextConn]_vars

\* The collection of a reply: wait_answer with every budget, after writes
\* that make the device answer.  Each readline returns a line or times out.
NextWait ==
    \/ Open(1) \/ OpenDone(1) \/ OpenFail(1)
    \/ Write(1, CmdLine)
    \/ \E n \in NLines : WaitAnswer(1, n)
    \/ DrainDone(1) \/ DrainTimeout(1)
    \/ ReadLine(1) \/ ReadTimeout(1)
    \/ \E texts \in Replies : DeviceReply(texts)

SpecWait == Init /\ [][NextWait]_vars /\ WF_vars(ReadLine(1) \/ ReadTimeout(1))

TypeOK ==
    /\ reader \in BOOLEAN /\ writer \in BOOLEAN
    /\ transport \in {"none", "open", "closing"}
    /\ Len(wire) <= MaxWire /\ Len(rx) <= MaxRx
    /\ \A t \in Tasks : call[t].pc \in {"idle", "done", "opening", "closing", "drain",
                                        "read", "waitread", "readline"}

\* ------------------------------------------------------------ properties
OkMsg == OkMessage(response_ok, term_char)
IsOkLine(l) == EndsWith(l.text, OkMsg)
HasOk(m) == \E i \in 1..Len(m) : IsOkLine(m[i])
Finished(t, op) == call[t].op = op /\ call[t].pc = "done"

\* the budget was used up by reads that all returned a line, none of them ok
Exhausted(t) ==
    /\ call[t].budget >= 1
    /\ call[t].reads = call[t].budget
    /\ Len(call[t].msg) = call[t].budget
    /\ ~HasOk(call[t].msg)

\* C1: against a device that ends every reply with an ok line, the lines an
\* ask returns were all emitted in answer to the command that ask wrote.
C1_AskGetsOwnReply ==
    \A t \in Tasks :
        (Finished(t, "ask") /\ devOk /\ call[t].res.kind = "lines")
            => \A i \in 1..Len(call[t].res.lines) : call[t].res.lines[i].of = "cur"

\* C2 as stated: an ask whose n_lines lines were all read without an ok line
\* returns those n_lines lines.
C2_AskAcceptsExhausted ==
    \A t \in Tasks :
        (Finished(t, "ask") /\ Exhausted(t)) => call[t].res = RetLines(call[t].msg)

\* C2 amended: an ask whose n_lines lines were all read without an ok line
\* completes and returns None.
C2_AskExhaustedReturnsNone ==
    \A t \in Tasks :
        (Finished(t, "ask") /\ Exhausted(t)) => call[t].res = RetNone

C2_Witness ==
    \E t \in Tasks : Finished(t, "ask") /\ Exhausted(t) /\ call[t].budget = 2

\* C3: wait_answer returns None when n_lines lines were read and none ends
\* with the ok message; the lines it returns end with an ok line that is among
\* the first n_lines lines.
C3_WaitAnswerNoneWithoutOk ==
    \A t \in Tasks :
        Finished(t, "wait_answer") =>
            /\ Exhausted(t) => call[t].res = RetNone
            /\ call[t].res.kind = "lines" =>
                  /\ Len(call[t].res.lines) \in 1..call[t].budget
                  /\ IsOkLine(Last(call[t].res.lines))

C3_Witness ==
    \E t \in Tasks : /\ Finished(t, "wait_answer") /\ Exhausted(t)
                     /\ call[t].budget = 2 /\ call[t].res = RetNone

\* C4: ask and wait_answer return the lines read up to and including the first
\* ok line, in the step that reads that line, and that step takes this one
\* line from the transport and leaves the buffered ones.
C4_Returned(t) ==
    call[t].res.kind = "lines" =>
        /\ call[t].res.lines = call[t].msg
        /\ Len(call[t].msg) = call[t].reads
        /\ call[t].reads <= call[t].budget
        /\ IsOkLine(Last(call[t].msg))
        /\ \A i \in 1..(Len(call[t].msg) - 1) : ~IsOkLine(call[t].msg[i])

C4_ReadsOk(t) ==
    /\ call[t].op \in {"ask", "wait_answer"}
    /\ call[t].pc = "read"
    /\ call'[t] # call[t]
    /\ rx # <<>>
    /\ IsOkLine(Head(rx))

\* C4: every returned reply is the lines up to and including the first ok line,
\* and the step that reads an ok line returns at once and takes only that line.
C4_EarlyOkShortCircuits ==
    /\ [](\A t \in Tasks : call[t].op \in {"ask", "wait_answer"} /\ call[t].pc = "done"
                             => C4_Returned(t))
    /\ [][\A t \in Tasks : C4_ReadsOk(t) =>
              /\ call'[t].pc = "done"
              /\ call'[t].res = RetLines(Append(call[t].msg, Head(rx)))
              /\ rx' = Tail(rx)]_vars

C4_Witness ==
    \E t \in Tasks : /\ Finished(t, "ask") /\ call[t].res.kind = "lines"
                     /\ Len(call[t].res.lines) < call[t].budget
                     /\ rx # <<>>

\* C5: when a line read of ask or wait_answer times out, the call returns None:
\* none of the lines collected before the timeout is returned.
C5_TimeoutReturnsNothing ==
    \A t \in Tasks :
        (/\ call[t].op \in {"ask", "wait_answer"} /\ call[t].pc = "done"
         /\ call[t].timedOut /\ call[t].reads >= 1)
            => call[t].res = RetNone

C5_Witness ==
    \E t \in Tasks : /\ Finished(t, "ask") /\ call[t].timedOut
                     /\ Len(call[t].msg) >= 1 /\ call[t].res = RetNone

\* the call was made on an open connection and no line reached it
Unanswered(t) == call[t].opened /\ call[t].timedOut /\ call[t].msg = <<>>

\* C6 as stated: on an open connection, an ask that the device does not
\* answer raises TimeoutError.
C6_AskRaisesTimeout ==
    \A t \in Tasks :
        (Finished(t, "ask") /\ Unanswered(t)) => call[t].res = Raise("TimeoutError")

\* C6 amended: on an open connection, an ask that the device does not answer
\* returns None after its first read timed out when its command was written,
\* and raises TimeoutError only when the write itself did not drain in time.
C6_AskUnansweredReturnsNone ==
    \A t \in Tasks :
        (Finished(t, "ask") /\ Unanswered(t)) =>
            IF call[t].drained
            THEN call[t].res = RetNone /\ call[t].reads = 1
            ELSE call[t].res = Raise("TimeoutError") /\ call[t].reads = 0

C6_Witness ==
    \E t \in Tasks : /\ Finished(t, "ask") /\ Unanswered(t)
                     /\ call[t].drained /\ call[t].res = RetNone

\* the command lines a call may have written, in order
Expected(c) ==
    CASE c.op = "trace" ->
            [i \in 1..Len(c.pts) |-> TraceChain(c.pts[i], feed_rate, endstops)]
                \o <<<<Tok("G4", 0), Tok("S", 0)>>>>
      [] c.op = "wait" -> <<<<Tok("G4", 0), Tok("S", 0)>>>>
      [] c.op = "get_position" -> <<<<Tok("M114", 0)>>>>
      [] c.op = "probe_endstops" -> <<<<Tok("M119", 0)>>>>
      [] c.op = "ask" -> <<CmdLine>>
      [] OTHER -> c.sent

IsPrefix(s, r) == Len(s) <= Len(r) /\ SubSeq(r, 1, Len(s)) = s

Correlated == {"ask", "wait", "get_position", "set_position", "probe_endstops", "trace"}

\* C7: a timeout inside ask, wait, get_position, set_position, probe_endstops or
\* trace leaves reader and writer in place, nothing is written or read in that
\* call after the timeout, and the call writes each of its command lines at
\* most once.
C7_State(t) ==
    /\ call[t].timedOut => reader /\ writer
    /\ ~call[t].ioAfterTimeout
    /\ IsPrefix(call[t].sent, Expected(call[t]))
    /\ call[t].op = "set_position" => Len(call[t].sent) <= 1

\* C7: C7_State holds throughout, and the step in which a call times out ends
\* the call and leaves reader, writer and transport as they were.
C7_TimeoutKeepsConnection ==
    /\ [](\A t \in Tasks : call[t].op \in Correlated => C7_State(t))
    /\ [][\A t \in Tasks :
            (call'[t].op \in Correlated /\ call'[t].timedOut /\ ~call[t].timedOut)
                => /\ reader' = reader /\ writer' = writer /\ transport' = transport
                   /\ call'[t].pc = "done"]_vars

C7_Witness ==
    \E t \in Tasks : /\ Finished(t, "trace") /\ call[t].timedOut
                     /\ Len(call[t].pts) = 2 /\ Len(call[t].sent) = 1
                     /\ reader /\ writer

\* C8: a get_position or probe_endstops that read its 2 lines without an ok
\* line raises InvalidAnswerException.
C8_QueryRaisesInvalidAnswer ==
    \A t \in Tasks :
        (/\ call[t].op \in {"get_position", "probe_endstops"} /\ call[t].pc = "done"
         /\ Exhausted(t))
            => call[t].res = Raise("InvalidAnswerException")

\* C9: on an open connection, a probe_endstops that gets no ok-terminated reply
\* before a timeout raises TimeoutError.
C9_ProbeRaisesTimeout ==
    \A t \in Tasks :
        (Finished(t, "probe_endstops") /\ call[t].opened /\ call[t].timedOut)
            => call[t].res = Raise("TimeoutError")

\* C10: wait returns True only after reading a line that the device emitted in
\* answer to the G4 S0 of this wait; it returns False when no line arrives in
\* time and when there is no connection.
C10_WaitReadsDwellReply ==
    \A t \in Tasks :
        Finished(t, "wait") =>
            /\ call[t].res = RetBool(TRUE) =>
                  /\ call[t].sent = <<<<Tok("G4", 0), Tok("S", 0)>>>>
                  /\ Len(call[t].msg) = 1
                  /\ call[t].msg[1].of = "cur"
            /\ (call[t].timedOut /\ call[t].drained) => call[t].res = RetBool(FALSE)
            /\ ~call[t].opened => call[t].res = RetBool(FALSE)


\* task t has written the command of its ask and has not finished collecting
InWindow(t) == call[t].op = "ask" /\ call[t].pc \in {"drain", "read"}

\* this step hands a command line of task u to the writer, or is a read of u
WritesNow(u) == call[u].pc # "drain" /\ call'[u].pc = "drain"
ReadsNow(u) == call[u].pc = "read" /\ call'[u] # call[u]

\* C11: between the write of one ask and the end of its reply collection, no
\* other call on the same Machine writes to or reads from the transport.
C11_AskWindowExclusive ==
    [][\A t \in Tasks : \A u \in Tasks \ {t} :
          InWindow(t) => ~WritesNow(u) /\ ~ReadsNow(u)]_vars

\* the step in which task t begins a call of op
Begins(t, op) ==
    /\ call[t].pc \in {"idle", "done"}
    /\ call'[t].op = op
    /\ call'[t] # call[t]

\* the call of task t neither wrote nor read
NoIO(t) == call[t].sent = <<>> /\ call[t].reads = 0 /\ ~call[t].timedOut

\* C12: without a connection, ask returns None in the step that calls it,
\* raises nothing, writes no command and reads no line.
C12_AskDisconnectedNoOp ==
    /\ [](\A t \in Tasks : (call[t].op = "ask" /\ ~call[t].opened) =>
              /\ call[t].pc = "done"
              /\ call[t].res = RetNone
              /\ NoIO(t))
    /\ [][\A t \in Tasks : (Begins(t, "ask") /\ ~writer) =>
              /\ call'[t].pc = "done"
              /\ wire' = wire /\ rx' = rx]_vars

C12_Witness ==
    \E t \in Tasks : /\ Finished(t, "ask") /\ ~call[t].opened
                     /\ call[t].res = RetNone /\ call[t].budget = 2

\* the operations of C13, and what each returns without a connection
OffOps == {"close", "write", "readline", "ask", "wait", "get_position", "set_position",
           "move", "probe_endstops", "switch_motors", "trace"}

OffResult(t) ==
    CASE call[t].op \in {"readline", "ask"} -> RetNone
      [] call[t].op = "get_position" -> RetPoint(LastPoint(history))
      [] call[t].op = "probe_endstops" -> RetDict(NoDict)
      [] OTHER -> RetBool(FALSE)

\* C13: without a connection each of close, write, readline, ask, wait,
\* get_position, set_position, move, probe_endstops, switch_motors and trace
\* returns in the step that calls it, with its local answer or failure value,
\* and neither writes to nor reads from the transport.
C13_DisconnectedNeverBlocks ==
    /\ [](\A t \in Tasks : (call[t].op \in OffOps /\ ~call[t].opened) =>
              /\ call[t].pc = "done"
              /\ call[t].res = OffResult(t)
              /\ NoIO(t))
    /\ [][\A t \in Tasks : (\E op \in OffOps : Begins(t, op) /\ ~writer) =>
              /\ call'[t].pc = "done"
              /\ wire' = wire /\ rx' = rx /\ transport' = transport]_vars

C13_Witness ==
    \E t \in Tasks : /\ Finished(t, "trace") /\ ~call[t].opened
                     /\ Len(call[t].pts) = 2
                     /\ call[t].res = RetBool(FALSE)
                     /\ port # <<>>

\* everything of the Machine and of the line, the calls apart
machine == <<settings, reader, writer, history, transport, wire, rx, devOk>>

\* C14: close without a connection returns False in the step that calls it
\* and changes nothing; a close that completes on an open connection returns
\* True and leaves reader and writer absent, so that the next close returns False.
C14_CloseIdempotent ==
    /\ [](\A t \in Tasks : Finished(t, "close") =>
              /\ ~call[t].opened => call[t].res = RetBool(FALSE)
              /\ (call[t].opened /\ ~call[t].timedOut) =>
                    call[t].res = RetBool(TRUE) /\ ~reader /\ ~writer)
    /\ [][\A t \in Tasks : (Begins(t, "close") /\ ~writer) =>
              /\ call'[t].pc = "done"
              /\ call'[t].res = RetBool(FALSE)
              /\ machine' = machine]_vars
    /\ [][\A t \in Tasks : (Finished(t, "close") /\ call[t].res = RetBool(TRUE)
                             /\ Begins(t, "close")) =>
              call'[t].pc = "done" /\ call'[t].res = RetBool(FALSE)]_vars

C14_Witness ==
    \E t \in Tasks : /\ Finished(t, "close") /\ call[t].opened
                     /\ call[t].res = RetBool(TRUE) /\ ~reader /\ ~writer

\* C15: open raises SerialException when a reader or writer exists and
\* ValueError when the port is empty, in the step that calls it and with the
\* Machine unchanged; otherwise it connects, and the open that succeeds
\* returns True and sets reader and writer.
C15_OpenGuards ==
    /\ [][\A t \in Tasks : Begins(t, "open") =>
              IF reader \/ writer
              THEN /\ call'[t].pc = "done" /\ call'[t].res = Raise("SerialException")
                   /\ machine' = machine
              ELSE IF port = <<>>
              THEN /\ call'[t].pc = "done" /\ call'[t].res = Raise("ValueError")
                   /\ machine' = machine
              ELSE call'[t].pc = "opening"]_vars
    /\ [][\A t \in Tasks : (call[t].pc = "opening" /\ call'[t].res = RetBool(TRUE)) =>
              reader' /\ writer']_vars
    /\ [](\A t \in Tasks : call[t].pc = "opening" => ~reader /\ ~writer /\ port # <<>>)

C15_Witness ==
    \E t \in Tasks : /\ Finished(t, "open") /\ call[t].res = Raise("SerialException")
                     /\ reader /\ writer

\* C16: a close that exceeds its timeout raises TimeoutError and leaves reader,
\* writer and the transport as they were before the call: the transport is
\* neither closed nor closing.
C16_CloseTimeoutNoPartialClose ==
    \A t \in Tasks :
        (Finished(t, "close") /\ call[t].timedOut) =>
            /\ call[t].res = Raise("TimeoutError")
            /\ reader /\ writer
            /\ transport = "open"

\* the axes named by the keyword arguments of the call of task t
Named(t) == {d.key : d \in {_parse_position(call[t].kw)[i] :
                               i \in 1..Len(_parse_position(call[t].kw))}}
Given(t, ax) ==
    LET np == _parse_position(call[t].kw)
    IN  (CHOOSE i \in 1..Len(np) : np[i].key = ax)

\* h is h0 with exactly one point more at the end of its last segment
OneMore(h0, h) ==
    /\ Len(h) = Len(h0)
    /\ \A i \in 1..(Len(h) - 1) : h[i] = h0[i]
    /\ Last(h).tool_size = Last(h0).tool_size
    /\ Len(Last(h).pts) = Len(Last(h0).pts) + 1
    /\ SubSeq(Last(h).pts, 1, Len(Last(h0).pts)) = Last(h0).pts

\* C17: from the step that calls move on, whether its write is pending, has
\* completed, has timed out or was never made for want of a connection, the
\* history is the one the call found with exactly one point appended.
C17_MoveAppendsAndKeeps ==
    \A t \in Tasks : call[t].op = "move" => OneMore(call[t].h0, history)

C17_Witness ==
    \E t \in Tasks : /\ Finished(t, "move") /\ call[t].timedOut
                     /\ call[t].res = Raise("TimeoutError")
                     /\ OneMore(call[t].h0, history)

\* C18: the point appended by move has the given value on every axis named in
\* the call and, on every other axis, the value of the previous last point.
C18_MoveHoldsUnnamedAxes ==
    \A t \in Tasks : call[t].op = "move" =>
        \A ax \in AxisSet :
            LastPoint(history)[AxisAttr(ax)] =
                IF ax \in Named(t) THEN _parse_position(call[t].kw)[Given(t, ax)].val
                ELSE LastPoint(call[t].h0)[AxisAttr(ax)]

\* h is h0 but for the last point of its last segment
SameButLast(h0, h) ==
    /\ Len(h) = Len(h0)
    /\ \A i \in 1..(Len(h) - 1) : h[i] = h0[i]
    /\ Last(h).tool_size = Last(h0).tool_size
    /\ Len(Last(h).pts) = Len(Last(h0).pts)
    /\ \A i \in 1..(Len(Last(h).pts) - 1) : Last(h).pts[i] = Last(h0).pts[i]

C20_GetPositionReadsHistory ==
    \A t \in Tasks : (call[t].op = "get_position" /\ ~call[t].opened) =>
        /\ call[t].pc = "done"
        /\ call[t].res = RetPoint(Last(Last(call[t].h0).pts))
        /\ history = call[t].h0
        /\ NoIO(t)

C20_Witness ==
    \E t \in Tasks : /\ Finished(t, "get_position") /\ ~call[t].opened
                     /\ Len(Last(history).pts) = 2
                     /\ call[t].res = RetPoint(Point(0, 2, 0, 0))

\* the point get_position is to return for each reply line of QueryReplies
C21_Expected(text, prev) ==
    CASE text = PosLine -> [prev EXCEPT !.x = 2]
      [] text = PosLine2 -> [prev EXCEPT !.x = 2, !.y = 0 - 1]
      [] OTHER -> prev

\* C21: with a connection get_position writes M114 once and collects with a
\* budget of 2 lines; given an ok-terminated reply it returns, axis by axis,
\* the value found in the first reply line or else the value of the last
\* history point; when a read or the write times out it raises TimeoutError.
C21_GetPositionSyncs ==
    \A t \in Tasks : (call[t].op = "get_position" /\ call[t].opened) =>
        /\ IsPrefix(call[t].sent, <<<<Tok("M114", 0)>>>>)
        /\ call[t].drained => call[t].sent = <<<<Tok("M114", 0)>>>>
        /\ call[t].budget = 2
        /\ (call[t].pc = "done" /\ HasOk(call[t].msg)) =>
              call[t].res = RetPoint(C21_Expected(call[t].msg[1].text, LastPoint(history)))
        /\ (call[t].pc = "done" /\ call[t].timedOut) => call[t].res = Raise("TimeoutError")

C21_Witness ==
    \E t \in Tasks : /\ Finished(t, "get_position") /\ call[t].opened
                     /\ call[t].msg # <<>> /\ call[t].msg[1].text = PosLine
                     /\ LastPoint(history) = Point(0, 2, 0, 0)
                     /\ call[t].res = RetPoint(Point(2, 2, 0, 0))

\* the value a setter was called with
Value(t) == call[t].kw[1].val

\* C22: a set_tool_size with another size, the last segment having more than
\* one point, leaves the segments it found as they were and adds one segment
\* that holds the last point alone and has the new size; with at most one
\* point in the last segment it adds no segment.
C22_ToolSizeSegments ==
    \A t \in Tasks : (call[t].op = "set_tool_size" /\ call[t].res = RetNone) =>
        LET h0 == call[t].h0
        IN  /\ (Len(Last(h0).pts) > 1 /\ Last(h0).tool_size # Value(t)) =>
                  /\ Len(history) = Len(h0) + 1
                  /\ SubSeq(history, 1, Len(h0)) = h0
                  /\ Last(history).pts = <<LastPoint(h0)>>
                  /\ Last(history).tool_size = Value(t)
            /\ Len(Last(h0).pts) <= 1 =>
                  /\ Len(history) = Len(h0)
                  /\ \A i \in 1..Len(h0) : history[i].pts = h0[i].pts

C22_Witness ==
    \E t \in Tasks : /\ Finished(t, "set_tool_size") /\ call[t].res = RetNone
                     /\ Len(call[t].h0) = 1 /\ Len(history) = 2
                     /\ LastPoint(history) # Origin

\* C23: every segment but the first begins with the point that ends the
\* segment before it.
C23_Continuity ==
    \A i \in 2..Len(history) : history[i].pts[1] = Last(history[i - 1].pts)

C23_Witness ==
    \E t \in Tasks : /\ Finished(t, "set_position")
                     /\ Len(history) = 2 /\ Len(Last(history).pts) = 1
                     /\ LastPoint(history) # LastPoint(call[t].h0)

\* C24: no two consecutive segments have the same tool size.
C24_SegmentsMaximal ==
    \A i \in 2..Len(history) : history[i].tool_size # history[i - 1].tool_size

\* C25: the history starts as one segment holding the origin alone; no step
\* removes a segment or a point, and no step changes a point other than the
\* last point of the last segment.
C25_AppendOnly ==
    /\ (Len(history) = 1 /\ history[1].pts = <<Origin>>)
    /\ [][/\ Len(history') >= Len(history)
          /\ \A i \in 1..Len(history) :
                /\ Len(history'[i].pts) >= Len(history[i].pts)
                /\ \A j \in 1..Len(history[i].pts) :
                      \/ i = Len(history) /\ j = Len(history[i].pts)
                      \/ history'[i].pts[j] = history[i].pts[j]]_vars

\* the call c is a setter given a value its checks refuse
InvalidValue(c) ==
    \/ c.op \in {"set_feed_rate", "set_tool_size", "set_baud_rate"} /\ c.kw[1].val <= 0
    \/ c.op = "set_response_ok" /\ c.kw[1].val = <<>>
    \/ c.op = "set_timeout" /\ ~c.kw[1].val.inf /\ c.kw[1].val.s < 0

\* this step is task t calling one of the setters ops
Sets(t, ops) ==
    /\ call[t].pc \in {"idle", "done"}
    /\ call'[t] # call[t]
    /\ call'[t].op \in ops

Setters == {"set_port", "set_baud_rate", "set_timeout", "set_term_char",
            "set_response_ok", "set_feed_rate", "set_tool_size"}

\* C26 as stated: a setter given a non-positive feed rate, tool size or baud
\* rate, an empty ok-token or a negative timeout raises ValueError and
\* changes no field.
C26_SettersRejectInvalid ==
    [][\A t \in Tasks : (Sets(t, Setters) /\ InvalidValue(call'[t])) =>
            /\ call'[t].res = Raise("ValueError")
            /\ machine' = machine]_vars

\* C26, amended: such a setter changes no field and raises ValueError, except
\* that set_baud_rate raises SerialException while a connection is open.
C26_SettersRejectInvalidOrOpen ==
    [][\A t \in Tasks : (Sets(t, Setters) /\ InvalidValue(call'[t])) =>
            /\ machine' = machine
            /\ call'[t].res = IF call'[t].op = "set_baud_rate" /\ (reader \/ writer)
                              THEN Raise("SerialException")
                              ELSE Raise("ValueError")]_vars

C26_Witness ==
    \E t \in Tasks : /\ Finished(t, "set_baud_rate") /\ InvalidValue(call[t])
                     /\ writer
                     /\ call[t].res = Raise("SerialException")
                     /\ serial_baud_rate = DefaultBaudRate

\* the call c is a setter given a value its checks accept
ValidValue(c) == ~InvalidValue(c) /\ (c.op = "set_port" => c.kw[1].val # <<>>)

\* the setter call c leaves its value in the field it is named after
Written(c) ==
    CASE c.op = "set_port" -> port' = c.kw[1].val
      [] c.op = "set_baud_rate" -> serial_baud_rate' = c.kw[1].val
      [] c.op = "set_timeout" -> timeout' = c.kw[1].val
      [] c.op = "set_term_char" -> term_char' = c.kw[1].val
      [] c.op = "set_response_ok" -> response_ok' = c.kw[1].val

\* C27: while a connection is open, setting the port, the baud rate, the
\* line terminator or the ok-token raises an error and changes no field,
\* and setting a timeout that is not negative succeeds; without a
\* connection each of them accepts a valid value.
C27_OpenLocksConnectionFields ==
    [][\A t \in Tasks :
          /\ (Sets(t, {"set_port", "set_baud_rate", "set_term_char", "set_response_ok"})
                 /\ (reader \/ writer)) =>
                /\ call'[t].res.kind = "raise"
                /\ settings' = settings
          /\ (Sets(t, {"set_timeout"}) /\ ValidValue(call'[t])) =>
                /\ call'[t].res = RetNone
                /\ Written(call'[t])
          /\ (Sets(t, {"set_port", "set_baud_rate", "set_term_char", "set_response_ok"})
                 /\ ~(reader \/ writer)
                 /\ ValidValue(call'[t])) =>
                /\ call'[t].res = RetNone
                /\ Written(call'[t])]_vars

\* what the reply lines of QueryReplies hold: EndLine alone has statuses that
\* a comma ends, "not stopped" for X and "min" for Z
StatusPresent(text, ax) == text = EndLine /\ ax \in {"X", "Z"}
StatusClear(text, ax) == text = EndLine /\ ax = "X"

\* the call of task t is a probe_endstops that got an ok-terminated reply
Probed(t) == Finished(t, "probe_endstops") /\ call[t].opened /\ HasOk(call[t].msg)

\* C28: probe_endstops reports an axis as not triggered only when the first
\* reply line has a status for it that contains "not stopped"; an axis
\* without a status in the reply is reported as triggered.
C28_EndstopsBiasedToTriggered ==
    \A t \in Tasks : Probed(t) =>
        /\ call[t].res.kind = "dict"
        /\ \A ax \in AxisSet :
              call[t].res.dict[ax] = ~(/\ StatusPresent(call[t].msg[1].text, ax)
                                       /\ StatusClear(call[t].msg[1].text, ax))

BadTraceArgs(kw) ==
    \/ \A i \in 1..4 : ~kw[i].some
    \/ \E i, j \in 1..4 : kw[i].some /\ kw[j].some /\ Len(kw[i].v) # Len(kw[j].v)

\* C30: a trace given no vector at all, or vectors of different lengths,
\* raises ValueError in the step that calls it, having written no command
\* and read no line, and leaves the history as it found it.
C30_TraceValidatesFirst ==
    \A t \in Tasks : (call[t].op = "trace" /\ BadTraceArgs(call[t].kw)) =>
        /\ call[t].pc = "done"
        /\ call[t].res = Raise("ValueError")
        /\ NoIO(t)
        /\ history = call[t].h0

C30_Witness ==
    \E t \in Tasks : /\ Finished(t, "trace") /\ call[t].opened /\ writer
                     /\ call[t].kw = <<Some(<<1, 2>>), Some(<<1>>), None, None>>
                     /\ call[t].res = Raise("ValueError")
                     /\ wire = <<>>

\* the points a trace given the vectors kw goes through
TracePts(kw) ==
    LET first == CHOOSE i \in 1..4 : kw[i].some /\ \A j \in 1..(i - 1) : ~kw[j].some
        N == Len(kw[first].v)
    IN  [n \in 1..N |-> Point(IF kw[1].some THEN kw[1].v[n] ELSE 0,
                              IF kw[2].some THEN kw[2].v[n] ELSE 0,
                              IF kw[3].some THEN kw[3].v[n] ELSE 0,
                              IF kw[4].some THEN kw[4].v[n] ELSE 0)]

\* the G1 command lines among the lines a call wrote
G1Lines(sent) == SelectSeq(sent, LAMBDA l : l[1].k = "G1")

\* the number of points the call of task t has added to the last segment
Added(t) == Len(Last(history).pts) - Len(Last(call[t].h0).pts)

\* the call of task t is a trace on an open connection with valid vectors
Tracing(t) == call[t].op = "trace" /\ call[t].opened /\ ~BadTraceArgs(call[t].kw)

\* C31: on an open connection trace writes the G1 commands of its points in
\* order, each in the step that appends its point, so that no point is in
\* the history without its command; a trace that returns has written as
\* many G1 commands as it has points.
C31_TraceStreamsEveryPoint ==
    \A t \in Tasks : Tracing(t) =>
        LET pts == TracePts(call[t].kw)
            g == G1Lines(call[t].sent)
        IN  /\ Len(g) <= Len(pts)
            /\ \A i \in 1..Len(g) :
                  g[i] = TraceChain(pts[i], feed_rate, endstops)
            /\ Added(t) = Len(g)
            /\ (call[t].pc = "done" /\ call[t].res.kind = "bool") => Len(g) = Len(pts)

C33_WritesReportTransmission ==
    \A t \in Tasks : (call[t].op \in {"move", "switch_motors"} /\ call[t].pc = "done") =>
        /\ (call[t].opened /\ ~call[t].timedOut) => call[t].res = RetBool(TRUE)
        /\ ~call[t].opened => (call[t].res = RetBool(FALSE) /\ call[t].sent = <<>>)
        /\ call[t].op = "switch_motors" =>
              /\ call[t].reads = 0
              /\ call[t].opened =>
                    call[t].sent = << IF call[t].kw[1].val
                                      THEN <<Tok("M84", 0), Tok("S", 30)>>
                                      ELSE <<Tok("M18", 0)>> >>

\* the axis arguments of the G0 line of a move given the keyword arguments kw
G0Args(kw) ==
    CASE kw = <<Arg("x", 1)>> -> <<Tok("X", 1)>>
      [] kw = <<Arg("y", 2)>> -> <<Tok("Y", 2)>>
      [] kw = <<Arg("foo", 3)>> -> <<>>

\* what a move writes: the mode line, then the G0 line with the feed rate
\* and the endstop flag the Machine holds when the move is called
MoveLines(mode, kw) ==
    << <<Tok(mode, 0)>>,
       <<Tok("G0", 0)>> \o G0Args(kw)
           \o <<Tok("F", feed_rate), Tok("S", IF endstops THEN 1 ELSE 0)>> >>

\* C34: on an open connection a move writes, in the step that calls it, the
\* line G91 (relative) or G90 followed by one G0 line with the named axes, F
\* and the current feed rate, S and the current endstop flag as 0 or 1;
\* set_feed_rate, enable_endstops and disable_endstops write nothing.
C34_MoveCarriesFeedAndEndstops ==
    [][/\ \A kw \in KwargsMove :
             /\ (writer /\ AbsMove(1, kw)) =>
                   /\ call'[1].sent = MoveLines("G90", kw)
                   /\ Len(wire') = Len(wire) + 2
             /\ (writer /\ RelMove(1, kw)) =>
                   /\ call'[1].sent = MoveLines("G91", kw)
                   /\ Len(wire') = Len(wire) + 2
       /\ \A t \in Tasks :
             Sets(t, {"set_feed_rate", "enable_endstops", "disable_endstops"}) =>
                   /\ call'[t].sent = <<>> /\ call'[t].reads = 0
                   /\ wire' = wire /\ rx' = rx]_vars

C34_Witness ==
    \E t \in Tasks : /\ Finished(t, "move") /\ call[t].opened
                     /\ feed_rate = 50 /\ ~endstops
                     /\ call[t].sent = << <<Tok("G91", 0)>>,
                                          <<Tok("G0", 0), Tok("X", 1), Tok("F", 50), Tok("S", 0)>> >>

\* the axis arguments of a command line, and the place of an axis in _axes
AxisToks(line) == SelectSeq(line, LAMBDA tk : tk.k \in AxisSet)
AxisIndex(k) == CHOOSE i \in 1..Len(Axes) : Axes[i] = k
NamedAxes(kw) == {Upper(kw[i].key) : i \in 1..Len(kw)} \cap AxisSet

\* the G0 line of a move, the G92 line of a set_position
PositionLine(c) == IF c.op = "move" THEN c.sent[2] ELSE c.sent[1]

\* C35: the G0 line of a move and the G92 line of a set_position carry the
\* axes the caller named, each once, in the order X, Y, Z, C.
C35_AxesInDeclarationOrder ==
    \A t \in Tasks :
        (call[t].op \in {"move", "set_position"} /\ call[t].sent # <<>>) =>
            LET a == AxisToks(PositionLine(call[t]))
            IN  /\ {a[i].k : i \in 1..Len(a)} = NamedAxes(call[t].kw)
                /\ \A i, j \in 1..Len(a) :
                      i < j => AxisIndex(a[i].k) < AxisIndex(a[j].k)

\* the property of SyncMachine that the setter call c was made through
PropertyOf(c) ==
    CASE c.op = "set_feed_rate" -> "feed_rate"
      [] c.op = "set_port" -> "port"
      [] c.op = "setattr_baud_rate" -> "serial_baud_rate"
      [] c.op = "set_timeout" -> "timeout"
      [] c.op = "set_term_char" -> "term_char"
      [] c.op = "set_response_ok" -> "response_ok"
      [] c.op = "set_tool_size" -> "tool_size"

\* what reading the property name of SyncMachine returns: the getter of the
\* property of that name of the Machine
SyncMachine_get(name) ==
    CASE name = "feed_rate" -> feed_rate
      [] name = "port" -> port
      [] name = "serial_baud_rate" -> serial_baud_rate
      [] name = "timeout" -> timeout
      [] name = "term_char" -> term_char
      [] name = "response_ok" -> response_ok
      [] name = "tool_size" -> Last(history).tool_size

\* C36: an assignment to a property of SyncMachine that raises nothing
\* leaves the value in the Machine, so that reading the property returns it.
C36_FacadePropertiesReadBack ==
    \A t \in Tasks :
        (call[t].op \in Setters \cup {"setattr_baud_rate"} /\ call[t].res = RetNone) =>
            SyncMachine_get(PropertyOf(call[t])) = call[t].kw[1].val

\* C37: on an open connection a set_position that sent its G92 command
\* returns TRUE only after an ok-terminated reply, and FALSE when a read
\* timed out or the reply lacks the ok line.
C37_SetPositionTrueOnlyIfAcked ==
    \A t \in Tasks :
        (Finished(t, "set_position") /\ call[t].opened /\ call[t].sent # <<>>) =>
            /\ call[t].res.kind = "bool"
            /\ call[t].res.b <=> (HasOk(call[t].msg) /\ ~call[t].timedOut)

\* the call of task t is a move that wrote the relative mode line G91
Relative(t) ==
    /\ call[t].op = "move"
    /\ call[t].sent # <<>>
    /\ call[t].sent[1] = <<Tok("G91", 0)>>

\* C38: the point a relative move appends has, on every axis named in the
\* call, the value of the previous last point plus the given delta.
C38_RelMoveAddsDeltas ==
    \A t \in Tasks : Relative(t) =>
        \A ax \in Named(t) :
            LastPoint(history)[AxisAttr(ax)] =
                LastPoint(call[t].h0)[AxisAttr(ax)]
                    + _parse_position(call[t].kw)[Given(t, ax)].val

\* C39: the reader and the writer are both present or both absent.
C39_HandlesAgree == reader = writer

C39_Witness ==
    /\ reader /\ writer
    /\ \E t \in Tasks : Finished(t, "close") /\ call[t].res = Raise("TimeoutError")
    /\ \E t \in Tasks : Finished(t, "open") /\ call[t].res = Raise("SerialException")

\* C40: a wait_answer with a budget of n_lines >= 0 makes at most n_lines
\* reads, none at all with a budget of 0, and, each read returning a line
\* or timing out, it returns.
C40_WaitAnswerWithinBudget ==
    /\ [](\A t \in Tasks : call[t].op = "wait_answer" =>
              /\ call[t].reads <= call[t].budget
              /\ call[t].budget = 0 => (call[t].pc = "done" /\ call[t].reads = 0))
    /\ \A t \in Tasks :
          (call[t].op = "wait_answer" /\ call[t].pc = "read") ~> (call[t].pc = "done")

C40_Witness ==
    \E t \in Tasks : /\ Finished(t, "wait_answer") /\ call[t].opened
                     /\ call[t].budget = 2 /\ call[t].reads = 2
                     /\ ~HasOk(call[t].msg)
                     /\ call[t].res = RetNone
====
